---- MODULE Spec2Model ----
(***************************************************************************)
(* Model of whapi/rollup.config.mjs: the list of rollup build targets      *)
(* derived from the static module list, and the update-package-json-       *)
(* exports plugin whose writeBundle hook rewrites package.json.            *)
(*                                                                         *)
(* rollup runs the exported array of configurations one after the other,   *)
(* in array order: for each it bundles the input (resolving and compiling  *)
(* it), writes the output file, and then calls the writeBundle hooks of    *)
(* the plugins of that configuration.  A rejected hook or a failed bundle  *)
(* ends the invocation with a non-zero exit.                               *)
(*                                                                         *)
(* JavaScript objects are insertion-ordered sequences of [k, v] members;   *)
(* a value is a string or an object.  The manifest file is the sequence of *)
(* tokens of its JSON text.                                                *)
(***************************************************************************)
EXTENDS Integers, Sequences, FiniteSets, TLC

\* ------------------------------------------------------------ bounds
MaxModules == 2
MaxRuns == 2

\* Module names the static list `modules` is drawn from.
Names == {"a", "b", "."}

\* ------------------------------------------------------------ values
Str(s) == [t |-> "str", s |-> s, kv |-> <<>>]
Obj(kv) == [t |-> "obj", s |-> "", kv |-> kv]
Member(k, v) == [k |-> k, v |-> v]

Keys(kv) == {kv[i].k : i \in DOMAIN kv}
HasKey(kv, k) == \E i \in DOMAIN kv : kv[i].k = k
Get(kv, k) == kv[CHOOSE i \in DOMAIN kv : kv[i].k = k].v

\* obj[k] = v: an existing key keeps its position, a new key goes last.
SetMember(kv, k, v) ==
    IF HasKey(kv, k)
    THEN [i \in DOMAIN kv |-> IF kv[i].k = k THEN Member(k, v) ELSE kv[i]]
    ELSE Append(kv, Member(k, v))

\* { ...a, ...b }: a fresh object, a's members and then b's.
RECURSIVE Spread(_, _)
Spread(a, b) ==
    IF b = <<>> THEN a
    ELSE Spread(SetMember(a, b[1].k, b[1].v), Tail(b))

\* Object.assign(target, source): the new value of target.
ObjectAssign(target, source) == Spread(target, source)

\* ------------------------------------------------------------ configuration
useEsbuild == TRUE
UpdatePlugin == "update-package-json-exports"

defaultExportsLegacyCjs ==
    << Member(".", Obj(<< Member("import", Str("./dist/esm/index.mjs")),
                          Member("require", Str("./dist/index.cjs")),
                          Member("types", Str("./dist/index.d.ts")),
                          Member("default", Str("./dist/esm/index.mjs")) >>)) >>
defaultExportsLiteral ==
    << Member(".", Obj(<< Member("import", Str("./dist/esm/index.mjs")),
                          Member("require", Str("./dist/cjs/index.cjs")),
                          Member("types", Str("./dist/index.d.ts")),
                          Member("default", Str("./dist/esm/index.mjs")) >>)) >>

ExportKeyNoPrefix(moduleName) == moduleName
ExportKey(moduleName) == "./" \o moduleName

createExportTemplate(moduleName) ==
    << Member(ExportKey(moduleName),
              Obj(<< Member("import", Str("./" \o moduleName \o "/index.mjs")),
                     Member("require", Str("./" \o moduleName \o "/index.cjs")),
                     Member("types", Str("./" \o moduleName \o "/index.d.ts")),
                     Member("default", Str("./" \o moduleName \o "/index.mjs")) >>)) >>

ModuleInput(moduleName) == "src/modules/" \o moduleName \o "/index.ts"

\* The plugins of a code target under the toggle: esbuild with
\* typescriptPaths, or the type-checking typescript plugin.
CodePluginsFor(esbuild) ==
    << "externals", "json",
       IF esbuild THEN "typescriptPaths" ELSE "undefined",
       IF esbuild THEN "esbuild" ELSE "typescript" >>

CodePlugins == CodePluginsFor(useEsbuild)

createTsDefinitionConfigForModule(moduleName) ==
    [ input |-> ModuleInput(moduleName),
      file |-> moduleName \o "/index.d.ts",
      format |-> "es", kind |-> "types", module |-> <<moduleName>>,
      plugins |-> << "externals", "json", "typescriptPaths", "dts" >> ]

createCjsConfigFor(moduleNames, esbuild) ==
    [ i \in DOMAIN moduleNames |->
        [ input |-> ModuleInput(moduleNames[i]),
          file |-> moduleNames[i] \o "/index.cjs",
          format |-> "cjs", kind |-> "cjs", module |-> <<moduleNames[i]>>,
          plugins |-> CodePluginsFor(esbuild) ] ]

createCjsConfigForModules(moduleNames) == createCjsConfigFor(moduleNames, useEsbuild)

createEsmConfigAsCjs(moduleNames, esbuild) == createCjsConfigFor(moduleNames, esbuild)
createEsmConfigFor(moduleNames, esbuild) ==
    [ i \in DOMAIN moduleNames |->
        [ input |-> ModuleInput(moduleNames[i]),
          file |-> moduleNames[i] \o "/index.mjs",
          format |-> "es", kind |-> "esm", module |-> <<moduleNames[i]>>,
          plugins |-> CodePluginsFor(esbuild) ] ]

createEsmConfigForModules(moduleNames) == createEsmConfigFor(moduleNames, useEsbuild)

\* The module targets of the exported array under a value of the toggle.
ModuleTargets(moduleNames, esbuild) ==
    [ i \in DOMAIN moduleNames |-> createTsDefinitionConfigForModule(moduleNames[i]) ]
      \o createCjsConfigFor(moduleNames, esbuild)
      \o createEsmConfigFor(moduleNames, esbuild)

RootTypesTarget ==
    [ input |-> "src/index.ts", file |-> "dist/index.d.ts",
      format |-> "es", kind |-> "types", module |-> <<>>,
      plugins |-> << "externals", "json", "typescriptPaths", "dts", UpdatePlugin >> ]

RootEsmTargetWithUpdate ==
    [ input |-> "src/index.ts", file |-> "dist/esm/index.mjs",
      format |-> "es", kind |-> "esm", module |-> <<>>,
      plugins |-> Append(CodePlugins, UpdatePlugin) ]
RootEsmTarget ==
    [ input |-> "src/index.ts", file |-> "dist/esm/index.mjs",
      format |-> "es", kind |-> "esm", module |-> <<>>,
      plugins |-> CodePlugins ]

RootCjsTarget ==
    [ input |-> "src/index.ts", file |-> "dist/cjs/index.cjs",
      format |-> "cjs", kind |-> "cjs", module |-> <<>>,
      plugins |-> CodePlugins ]

\* The exported array of configurations, in array order.
ExportDefault(moduleNames) ==
    << RootTypesTarget, RootEsmTarget, RootCjsTarget >>
      \o ModuleTargets(moduleNames, useEsbuild)

HasUpdatePlugin(t) == \E i \in DOMAIN t.plugins : t.plugins[i] = UpdatePlugin

\* ------------------------------------------------------------ manifest text
Tok(kind, text) == [kind |-> kind, text |-> text]

\* JSON.stringify followed by prettier.format (parser json): the tokens of
\* the text, members in the object's own order.
RECURSIVE Format(_)
RECURSIVE FormatMembers(_)
Format(v) ==
    IF v.t = "str" THEN << Tok("string", v.s) >>
    ELSE << Tok("{", "") >> \o FormatMembers(v.kv) \o << Tok("}", "") >>
FormatMembers(kv) ==
    IF kv = <<>> THEN <<>>
    ELSE << Tok("key", kv[1].k) >> \o Format(kv[1].v) \o FormatMembers(Tail(kv))

\* The JSON import of ./package.json: [v |-> the value read at position i,
\* n |-> the position after it].
RECURSIVE ParseValue(_, _)
RECURSIVE ParseMembers(_, _, _)
ParseValue(toks, i) ==
    IF toks[i].kind = "string" THEN [v |-> Str(toks[i].text), n |-> i + 1]
    ELSE ParseMembers(toks, i + 1, <<>>)
ParseMembers(toks, i, acc) ==
    IF toks[i].kind = "}" THEN [v |-> Obj(acc), n |-> i + 1]
    ELSE LET r == ParseValue(toks, i + 1)
         IN  ParseMembers(toks, r.n, SetMember(acc, toks[i].text, r.v))

\* import packageJson from './package.json': the members of the top object.
ImportPackageJson(toks) == ParseValue(toks, 1).v.kv

\* ------------------------------------------------------------ the plugin
\* const updatedExports = { ...defaultExports }
InitialExportsEmpty(de) == <<>>
InitialExports(de) == Spread(<<>>, de)

\* for (let moduleName of modules) Object.assign(updatedExports, {...})
MergeModulesLastOnly(updatedExports, moduleNames) ==
    IF moduleNames = <<>> THEN updatedExports
    ELSE Spread(updatedExports, createExportTemplate(moduleNames[Len(moduleNames)]))
RECURSIVE MergeModules(_, _)
MergeModules(updatedExports, moduleNames) ==
    IF moduleNames = <<>> THEN updatedExports
    ELSE MergeModules(
           ObjectAssign(updatedExports,
                        Spread(updatedExports, createExportTemplate(Head(moduleNames)))),
           Tail(moduleNames))

\* buildExportMap of the specification: the export map of a module list.
UpdatedExports(de, moduleNames) == MergeModules(InitialExports(de), moduleNames)

\* The objects after the synchronous part of writeBundle: the two module-level
\* objects the hook reads, and the two fresh objects it builds.
writeBundleAliasManifest(pj, de, moduleNames) ==
    LET updatedExports == UpdatedExports(de, moduleNames)
        assigned == SetMember(pj, "exports", Obj(updatedExports))
    IN  [ packageJson |-> assigned, defaultExports |-> de,
          packageJsonDuplicate |-> assigned, updatedExports |-> updatedExports ]
writeBundleAliasDefaults(pj, de, moduleNames) ==
    LET updatedExports == MergeModules(de, moduleNames)
    IN  [ packageJson |-> pj, defaultExports |-> updatedExports,
          packageJsonDuplicate |-> SetMember(Spread(<<>>, pj), "exports", Obj(updatedExports)),
          updatedExports |-> updatedExports ]
writeBundleMergeExisting(pj, de, moduleNames) ==
    LET existing == IF HasKey(pj, "exports") THEN Get(pj, "exports").kv ELSE <<>>
        updatedExports == MergeModules(Spread(existing, de), moduleNames)
    IN  [ packageJson |-> pj, defaultExports |-> de,
          packageJsonDuplicate |-> SetMember(Spread(<<>>, pj), "exports", Obj(updatedExports)),
          updatedExports |-> updatedExports ]
writeBundleObjects(pj, de, moduleNames) ==
    LET packageJsonDuplicate == Spread(<<>>, pj)
        updatedExports == UpdatedExports(de, moduleNames)
    IN  [ packageJson |-> pj, defaultExports |-> de,
          packageJsonDuplicate |-> SetMember(packageJsonDuplicate, "exports", Obj(updatedExports)),
          updatedExports |-> updatedExports ]

\* fs.writeFile(path, data): the file is opened with truncation and the data
\* written in chunks.  It resolves with the whole data in the file, or rejects:
\* before the open (the file keeps its content) or after it (the file holds a
\* proper prefix of the data).
writeFileOutcomes(old, data) ==
    { [ok |-> TRUE, content |-> data], [ok |-> FALSE, content |-> old] }
      \cup { [ok |-> FALSE, content |-> SubSeq(data, 1, n)] : n \in 0 .. (Len(data) - 1) }

\* await fs.writeFile(...): a rejection rejects writeBundle, and rollup ends
\* the invocation with that error.
HookResultSwallowed(ok) == "running"
HookResult(ok) == IF ok THEN "running" ELSE "failed"

\* ------------------------------------------------------------ state
VARIABLES
    modules,        \* the static list `modules`
    missingSrc,     \* module names whose src/modules/<name>/index.ts is absent
    manifestFile,   \* ./package.json on disk
    loadedFile,     \* ./package.json as it was when this run imported it
    fromUpdate,     \* loadedFile was written by an earlier run's update
    packageJson,    \* the imported manifest object
    defaultExports, \* the module-level defaultExports object
    run,            \* number of the build invocation
    target,         \* position in the exported array
    phase,          \* "bundle", "write" or "writeBundle" of that target
    written,        \* positions whose output file has been written in this run
    hookCalls,      \* writeBundle calls of the update plugin in this run
    lastWrite,      \* "none", "ok" or "failed": fs.writeFile in this run
    result,         \* "running", "success" or "failed"
    error           \* "none" or the kind of the reported error

vars == << modules, missingSrc, manifestFile, loadedFile, fromUpdate, packageJson,
           defaultExports, run, target, phase, written, hookCalls, lastWrite,
           result, error >>

RECURSIVE SeqsUpTo(_, _)
SeqsUpTo(S, n) ==
    IF n = 0 THEN { <<>> }
    ELSE LET shorter == SeqsUpTo(S, n - 1)
         IN  shorter \cup { Append(s, x) : s \in shorter, x \in S }

StaleEntry ==
    Obj(<< Member("import", Str("./old/index.mjs")),
           Member("require", Str("./old/index.cjs")) >>)

\* Manifests the repository may hold before a build.
Manifests ==
    { << Member("name", Str("whapi")), Member("version", Str("1.0.0")) >>,
      << Member("name", Str("whapi")),
         Member("exports", Obj(<< Member("./old", StaleEntry) >>)),
         Member("files", Str("dist")) >> }

Targets == ExportDefault(modules)

Init ==
    /\ modules \in SeqsUpTo(Names, MaxModules)
    /\ missingSrc \in SUBSET Names
    /\ manifestFile \in { Format(Obj(m)) : m \in Manifests }
    /\ loadedFile = manifestFile
    /\ fromUpdate = FALSE
    /\ packageJson = ImportPackageJson(manifestFile)
    /\ defaultExports = defaultExportsLiteral
    /\ run = 1
    /\ target = 1
    /\ phase = "bundle"
    /\ written = {}
    /\ hookCalls = 0
    /\ lastWrite = "none"
    /\ result = "running"
    /\ error = "none"

Running == result = "running" /\ target <= Len(Targets)

InputMissing(t) == t.module # <<>> /\ t.module[1] \in missingSrc

\* rollup(inputOptions): resolve the entry and compile it.
Bundle ==
    /\ Running /\ phase = "bundle"
    /\ \E compiles \in BOOLEAN :
         IF InputMissing(Targets[target])
         THEN result' = "failed" /\ error' = "ConfigurationError" /\ phase' = phase
         ELSE IF compiles
         THEN phase' = "write" /\ UNCHANGED << result, error >>
         ELSE result' = "failed" /\ error' = "CompileError" /\ phase' = phase
    /\ UNCHANGED << modules, missingSrc, manifestFile, loadedFile, fromUpdate,
                    packageJson, defaultExports, run, target, written, hookCalls,
                    lastWrite >>

\* bundle.write(outputOptions): the output file, then the writeBundle hooks.
WriteOutput ==
    /\ Running /\ phase = "write"
    /\ written' = written \cup {target}
    /\ IF HasUpdatePlugin(Targets[target])
       THEN phase' = "writeBundle" /\ target' = target
       ELSE phase' = "bundle" /\ target' = target + 1
    /\ UNCHANGED << modules, missingSrc, manifestFile, loadedFile, fromUpdate,
                    packageJson, defaultExports, run, hookCalls, lastWrite,
                    result, error >>

\* updatePackageJsonExports().writeBundle
WriteBundle ==
    /\ Running /\ phase = "writeBundle"
    /\ LET o == writeBundleObjects(packageJson, defaultExports, modules)
       IN  /\ packageJson' = o.packageJson
           /\ defaultExports' = o.defaultExports
           /\ \E w \in writeFileOutcomes(manifestFile, Format(Obj(o.packageJsonDuplicate))) :
                /\ manifestFile' = w.content
                /\ lastWrite' = IF w.ok THEN "ok" ELSE "failed"
                /\ result' = HookResult(w.ok)
                /\ error' = IF HookResult(w.ok) = "failed" THEN "ManifestWriteError" ELSE error
                /\ IF HookResult(w.ok) = "running"
                   THEN target' = target + 1 /\ phase' = "bundle"
                   ELSE target' = target /\ phase' = phase
    /\ hookCalls' = hookCalls + 1
    /\ UNCHANGED << modules, missingSrc, loadedFile, fromUpdate, run, written >>

\* Every configuration of the array has been built: exit code 0.
Finish ==
    /\ result = "running" /\ target > Len(Targets)
    /\ result' = "success"
    /\ UNCHANGED << modules, missingSrc, manifestFile, loadedFile, fromUpdate,
                    packageJson, defaultExports, run, target, phase, written,
                    hookCalls, lastWrite, error >>

\* The next build invocation: the configuration module is evaluated again and
\* imports the manifest now on disk.
Reload ==
    /\ result # "running" /\ run < MaxRuns
    /\ lastWrite = "failed" => manifestFile = loadedFile
    /\ run' = run + 1
    /\ loadedFile' = manifestFile
    /\ fromUpdate' = (fromUpdate \/ lastWrite = "ok")
    /\ packageJson' = ImportPackageJson(manifestFile)
    /\ defaultExports' = defaultExportsLiteral
    /\ target' = 1 /\ phase' = "bundle" /\ written' = {}
    /\ hookCalls' = 0 /\ lastWrite' = "none"
    /\ result' = "running" /\ error' = "none"
    /\ UNCHANGED << modules, missingSrc, manifestFile >>

Next == Bundle \/ WriteOutput \/ WriteBundle \/ Finish \/ Reload

Spec == Init /\ [][Next]_vars

\* ------------------------------------------------------------ properties
AllTargets == 1 .. Len(Targets)
Range(q) == { q[i] : i \in DOMAIN q }
WithoutExports(kv) == SelectSeq(kv, LAMBDA m : m.k # "exports")

\* The manifest object the update of this run hands to fs.writeFile.
NewManifest == writeBundleObjects(packageJson, defaultExports, modules).packageJsonDuplicate

\* The export map in the manifest on disk.
WrittenExports == Get(ImportPackageJson(manifestFile), "exports").kv

\* C1: whenever the writeBundle hook of updatePackageJsonExports has run, the
\* output of every target of the exported list has been written.
C1_ManifestAfterAllTargets ==
    hookCalls > 0 => \A i \in AllTargets : i \in written

\* C2: after a failed manifest write the file holds the complete previous
\* manifest or the complete new manifest, never a truncated text.
C2_ManifestNeverTruncated ==
    lastWrite = "failed" =>
        manifestFile \in { loadedFile, Format(Obj(NewManifest)) }

\* C3: a failed manifest write is reported as the failure of the build: the
\* invocation is failed with the manifest write error, the hook ran once and
\* nothing ran after it.
C3_WriteFailurePropagates ==
    lastWrite = "failed" =>
        /\ result = "failed"
        /\ error = "ManifestWriteError"
        /\ hookCalls = 1
        /\ phase = "writeBundle"

C3_Witness ==
    /\ lastWrite = "failed" /\ result = "failed"
    /\ manifestFile # loadedFile
    /\ modules # <<>>

\* C4: when the build fails on a module's missing source entry, no target
\* output has been written and the manifest has not been rewritten.
C4_ConfigErrorBeforeAnyOutput ==
    error = "ConfigurationError" => written = {} /\ hookCalls = 0

\* C5: a finished build is a full success (every output written, manifest
\* updated) or a failure; a build failed by a compile error has not
\* rewritten the manifest.
C5_NoPartialSuccess ==
    /\ result = "success" => lastWrite = "ok" /\ \A i \in AllTargets : i \in written
    /\ (result = "failed" /\ error = "CompileError") => lastWrite # "ok"

\* C6: exactly one target carries the update plugin; its hook runs at most
\* once in a build, and exactly once, writing the manifest, in a successful
\* one.
C6_ManifestWrittenOnce ==
    /\ Cardinality({ i \in AllTargets : HasUpdatePlugin(Targets[i]) }) = 1
    /\ hookCalls <= 1
    /\ result = "success" => hookCalls = 1 /\ lastWrite = "ok"

C6_Witness ==
    result = "success" /\ hookCalls = 1 /\ Len(modules) >= 2

\* C7: for a non-empty module list the written export map has 1 + the number
\* of distinct names entries: "." and "./<name>" for each name; no module
\* key is ".".
C7_ExportMapSize ==
    (lastWrite = "ok" /\ modules # <<>>) =>
        /\ Len(WrittenExports) = 1 + Cardinality(Range(modules))
        /\ Keys(WrittenExports) = {"."} \cup { "./" \o n : n \in Range(modules) }
        /\ \A i \in DOMAIN WrittenExports :
             i > 1 => WrittenExports[i].k # "."

C7_Witness ==
    /\ lastWrite = "ok" /\ Len(modules) >= 2
    /\ modules[1] = modules[2]
    /\ Len(WrittenExports) = 2

\* C8: the written export map always has the root entry "." with the fixed
\* import, require, types and default targets; for the empty module list it
\* has nothing else.
C8_RootEntryFixed ==
    lastWrite = "ok" =>
        /\ HasKey(WrittenExports, ".")
        /\ Get(WrittenExports, ".") =
             Obj(<< Member("import", Str("./dist/esm/index.mjs")),
                    Member("require", Str("./dist/cjs/index.cjs")),
                    Member("types", Str("./dist/index.d.ts")),
                    Member("default", Str("./dist/esm/index.mjs")) >>)
        /\ modules = <<>> => Keys(WrittenExports) = {"."} /\ Len(WrittenExports) = 1

C8_Witness ==
    /\ lastWrite = "ok" /\ modules = <<>>
    /\ HasKey(ImportPackageJson(loadedFile), "exports")
    /\ manifestFile # loadedFile

\* C9: an update whose input manifest was written by an earlier update with
\* the same module list writes that same manifest again; no run alters the
\* defaultExports object or the imported manifest object.
C9_Idempotent ==
    /\ (fromUpdate /\ lastWrite = "ok") =>
          /\ manifestFile = loadedFile
          /\ WrittenExports = Get(ImportPackageJson(loadedFile), "exports").kv
    /\ defaultExports = defaultExportsLiteral
    /\ packageJson = ImportPackageJson(loadedFile)

C9_Witness ==
    /\ fromUpdate /\ lastWrite = "ok" /\ run = 2
    /\ modules # <<>>

\* C10: the written manifest has the members of the manifest read, same keys,
\* values and order, apart from exports; the imported object still equals
\* what was read.
C10_OnlyExportsChanges ==
    lastWrite = "ok" =>
        LET m == ImportPackageJson(manifestFile)
            old == ImportPackageJson(loadedFile)
        IN  /\ WithoutExports(m) = WithoutExports(old)
            /\ Keys(m) = Keys(old) \cup {"exports"}
            /\ Len(m) = Cardinality(Keys(m))
            /\ packageJson = old

C10_Witness ==
    /\ lastWrite = "ok" /\ run = 1
    /\ HasKey(packageJson, "exports")
    /\ Get(packageJson, "exports") # Get(ImportPackageJson(manifestFile), "exports")

\* The export map of the manifest this run imported (empty when it has none).
LoadedExports ==
    LET old == ImportPackageJson(loadedFile)
    IN  IF HasKey(old, "exports") THEN Get(old, "exports").kv ELSE <<>>

GeneratedKeys == {"."} \cup { "./" \o n : n \in Range(modules) }

\* C11: an export entry of the manifest read whose subpath the update does
\* not regenerate is still present, unchanged, in the written manifest.
C11_StaleEntryKept ==
    lastWrite = "ok" =>
        \A i \in DOMAIN LoadedExports :
            LoadedExports[i].k \notin GeneratedKeys =>
                /\ HasKey(WrittenExports, LoadedExports[i].k)
                /\ Get(WrittenExports, LoadedExports[i].k) = LoadedExports[i].v

\* C11 as amended: the exports field is replaced: the written export map
\* starts with the root entry, holds the generated keys and no others, and
\* an entry of the manifest read under another subpath is absent from it.
C11_ExportsReplaced ==
    lastWrite = "ok" =>
        /\ WrittenExports[1].k = "."
        /\ Keys(WrittenExports) = GeneratedKeys
        /\ \A i \in DOMAIN LoadedExports :
              LoadedExports[i].k \notin GeneratedKeys =>
                  ~HasKey(WrittenExports, LoadedExports[i].k)

C11_Witness ==
    /\ lastWrite = "ok" /\ modules # <<>>
    /\ HasKey(LoadedExports, "./old")
    /\ ~HasKey(WrittenExports, "./old")

OfKind(ts, k) == SelectSeq(ts, LAMBDA t : t.kind = k)
KindFile(k) == CASE k = "types" -> "/index.d.ts" [] k = "cjs" -> "/index.cjs" [] OTHER -> "/index.mjs"
KindFormat(k) == IF k = "cjs" THEN "cjs" ELSE "es"

\* C12: under either value of the toggle, a module list of length n gives
\* 3n module targets: n type-declaration, n CommonJS and n ES-module targets,
\* each kind in module-list order, one per list position (duplicates
\* included), with input src/modules/<name>/index.ts; these are the targets
\* the build runs after the three root targets.
C12_ModuleTargetCount ==
    /\ SubSeq(Targets, 4, Len(Targets)) = ModuleTargets(modules, useEsbuild)
    /\ Len(Targets) = 3 + 3 * Len(modules)
    /\ \A e \in BOOLEAN :
         LET mt == ModuleTargets(modules, e)
             n == Len(modules)
         IN  /\ Len(mt) = 3 * n
             /\ modules = <<>> => mt = <<>>
             /\ \A k \in {"types", "cjs", "esm"} :
                  LET ofKind == OfKind(mt, k)
                  IN  /\ Len(ofKind) = n
                      /\ \A i \in 1 .. n :
                           /\ ofKind[i].input = "src/modules/" \o modules[i] \o "/index.ts"
                           /\ ofKind[i].file = modules[i] \o KindFile(k)
                           /\ ofKind[i].format = KindFormat(k)

C12_Witness ==
    /\ Len(modules) = 2 /\ modules[1] = modules[2]
    /\ Len(Targets) = 9 /\ written = 1 .. 9
    /\ result = "success"

\* The module list in another order.
Reordered(p) == [ i \in DOMAIN modules |-> modules[p[i]] ]
LastOccurrence(n) ==
    CHOOSE i \in DOMAIN modules :
        modules[i] = n /\ \A j \in DOMAIN modules : modules[j] = n => j <= i

\* C13: each name of the module list, however often it occurs, has a single
\* "./<name>" entry in the written export map, equal to the entry derived
\* from its last occurrence; every reordering of the list gives an export
\* map with the same entries.
C13_LastWriteWins ==
    (lastWrite = "ok" /\ modules # <<>>) =>
        /\ \A n \in Range(modules) :
             LET last == modules[LastOccurrence(n)]
             IN  /\ Cardinality({ i \in DOMAIN WrittenExports :
                                    WrittenExports[i].k = "./" \o n }) = 1
                 /\ Get(WrittenExports, "./" \o n) =
                      Obj(<< Member("import", Str("./" \o last \o "/index.mjs")),
                             Member("require", Str("./" \o last \o "/index.cjs")),
                             Member("types", Str("./" \o last \o "/index.d.ts")),
                             Member("default", Str("./" \o last \o "/index.mjs")) >>)
        /\ \A p \in Permutations(DOMAIN modules) :
             Range(UpdatedExports(defaultExportsLiteral, Reordered(p))) = Range(WrittenExports)

C13_Witness ==
    /\ lastWrite = "ok" /\ run = 1
    /\ \E i, j \in DOMAIN modules : i < j /\ modules[i] = modules[j]
    /\ Cardinality(Range(WrittenExports)) = 2

\* What a target emits, read off its format and plugins.
EmitsTypes(t) == t.format = "es" /\ \E i \in DOMAIN t.plugins : t.plugins[i] = "dts"
EmitsCjs(t) == t.format = "cjs"
EmitsEsm(t) == t.format = "es" /\ ~EmitsTypes(t)
Emits(t, field) ==
    CASE field \in {"import", "default"} -> EmitsEsm(t)
      [] field = "require" -> EmitsCjs(t)
      [] OTHER -> EmitsTypes(t)

\* The export-map path of a file named relative to the package directory.
PackagePath(file) == "./" \o file

\* C14: every path of every entry of the written export map is the output
\* file of a target of the list built from the same module list, of the
\* matching format (import and default: ES module, require: CommonJS,
\* types: type declarations); after a successful build that target's
\* output has been written.
C14_ExportsPointAtOutputs ==
    lastWrite = "ok" =>
        \A i \in DOMAIN WrittenExports :
            LET entry == WrittenExports[i].v.kv
            IN  /\ Keys(entry) = {"import", "require", "types", "default"}
                /\ \A j \in DOMAIN entry :
                     \E t \in AllTargets :
                         /\ PackagePath(Targets[t].file) = entry[j].v.s
                         /\ Emits(Targets[t], entry[j].k)
                         /\ result = "success" => t \in written

C14_Witness ==
    /\ lastWrite = "ok" /\ result = "success"
    /\ Len(WrittenExports) = 3
    /\ \A t \in AllTargets : t \in written

====
